---- MODULE Spec2Model ----
(***************************************************************************)
(* Model of media/libmedia/MediaScanner.cpp: the recursive directory       *)
(* walker (processDirectory, doProcessDirectory, doProcessDirectoryEntry)  *)
(* over one reusable path buffer, and the directory filter                 *)
(* (shouldSkipDirectory: whitelist file, then the property skip list).     *)
(*                                                                         *)
(* C strings are sequences of ASCII codes; the path buffer is an array of  *)
(* PATH_MAX+1 bytes indexed from 0, whose C string ends at the first NUL.  *)
(***************************************************************************)
EXTENDS Integers, Sequences, FiniteSets, TLC

(***************************************************************************)
(* Bounds of the model.                                                    *)
(***************************************************************************)
\* capacity of the path buffer (limits.h gives 4096; scaled down)
PATH_MAX == 40
\* how many departures from the plain directory tree one scan combines
MaxFeatures == 2
\* longest generated skip-list property / candidate path of SkipSpec
MaxPropLen == 3
\* how many calls of shouldSkipDirectory one behaviour of SessionSpec makes
MaxCalls == 3

(***************************************************************************)
(* Program constants.                                                      *)
(***************************************************************************)
NUL == 0
NEWLINE == 10
COMMA == 44
DOT == 46
SLASH == 47
\* the literal 15 of line 255 and the literal 8 of line 267
NOSCAN_LEN == 15
NOMEDIA_LEN == 8
\* maximum entries allowed in whitelist
max_list_len == 100

MEDIA_SCAN_RESULT_OK == "OK"
MEDIA_SCAN_RESULT_SKIPPED == "SKIPPED"
MEDIA_SCAN_RESULT_ERROR == "ERROR"

\* ".noscanandnomtp"
NoScanName == <<46, 110, 111, 115, 99, 97, 110, 97, 110, 100, 110, 111, 109, 116, 112>>
\* ".nomedia"
NoMediaName == <<46, 110, 111, 109, 101, 100, 105, 97>>
\* prefixes[] = {"/storage/emulated/0/", "/storage/sdcard0/"}
prefixes ==
    << <<47, 115, 116, 111, 114, 97, 103, 101, 47, 101, 109, 117, 108, 97, 116,
         101, 100, 47, 48, 47>>,
       <<47, 115, 116, 111, 114, 97, 103, 101, 47, 115, 100, 99, 97, 114, 100,
         48, 47>> >>
nPrefixes == Len(prefixes)

(***************************************************************************)
(* String helpers.                                                         *)
(***************************************************************************)
StartsWith(s, p) == Len(p) <= Len(s) /\ SubSeq(s, 1, Len(p)) = p

Min(a, b) == IF a <= b THEN a ELSE b

\* index (1-based) of the first occurrence of c in s, or Len(s)+1
RECURSIVE FindChar(_, _, _)
FindChar(s, c, i) ==
    IF i > Len(s) THEN Len(s) + 1
    ELSE IF s[i] = c THEN i
    ELSE FindChar(s, c, i + 1)

(***************************************************************************)
(* loadSkipList: strtok(skipList, ",") yields the maximal comma-free runs  *)
(* of the property (leading and repeated commas are swallowed); only the   *)
(* length of each token is recorded, then the -1 sentinel.                 *)
(***************************************************************************)
RECURSIVE StrtokLengths(_, _)
StrtokLengths(s, i) ==
    IF i > Len(s) THEN << >>
    ELSE IF s[i] = COMMA THEN StrtokLengths(s, i + 1)
    ELSE LET e == FindChar(s, COMMA, i)
         IN  <<e - i>> \o StrtokLengths(s, e + 1)

\* the tokens themselves: what the administrator listed (not kept by the code)
RECURSIVE StrtokTokens(_, _)
StrtokTokens(s, i) ==
    IF i > Len(s) THEN << >>
    ELSE IF s[i] = COMMA THEN StrtokTokens(s, i + 1)
    ELSE LET e == FindChar(s, COMMA, i)
         IN  <<SubSeq(s, i, e - 1)>> \o StrtokTokens(s, e + 1)

\* mSkipList after loadSkipList: the property, or NULL (<< >>) when it is empty
LoadSkipList(prop) == prop

\* mSkipIndex after loadSkipList: NULL (<< >>) when mSkipList is NULL
LoadSkipIndex(prop) ==
    IF Len(prop) = 0 THEN << >> ELSE StrtokLengths(prop, 1) \o <<-1>>

(***************************************************************************)
(* shouldSkipDirectory, lines 222-240: the skip-list loop.                 *)
(* strncmp(path, &mSkipList[startPos], len) == 0 with len = strlen(path):  *)
(* the len bytes from startPos must exist before the backing string's NUL  *)
(* and be equal to the path's bytes.                                       *)
(***************************************************************************)
StrncmpSkipEq(path, list, startPos) ==
    \A i \in 1..Len(path) :
        startPos + i <= Len(list) /\ list[startPos + i] = path[i]

RECURSIVE SkipLoop(_, _, _, _, _)
SkipLoop(path, list, index, idx, startPos) ==
    IF index[idx] = -1 THEN FALSE
    ELSE IF Len(path) = index[idx] /\ StrncmpSkipEq(path, list, startPos) THEN TRUE
    ELSE SkipLoop(path, list, index, idx + 1, startPos + index[idx] + 1)

SkipListMatches(path, list, index) ==
    IF list # << >> /\ index # << >>
    THEN SkipLoop(path, list, index, 1, 0)
    ELSE FALSE

(***************************************************************************)
(* loadWhiteList: getline splits the file after each '\n'; a line of       *)
(* length <= 1 is dropped, the last byte of any other line is cut off      *)
(* (line[len-1] = 0), and at most max_list_len entries are kept.           *)
(***************************************************************************)
RECURSIVE GetLines(_, _)
GetLines(bytes, i) ==
    IF i > Len(bytes) THEN << >>
    ELSE LET e == Min(FindChar(bytes, NEWLINE, i), Len(bytes))
         IN  <<SubSeq(bytes, i, e)>> \o GetLines(bytes, e + 1)

RECURSIVE KeepLines(_)
KeepLines(lines) ==
    IF lines = << >> THEN << >>
    ELSE LET line == Head(lines)
         IN  (IF Len(line) <= 1 THEN << >>
              ELSE <<SubSeq(line, 1, Len(line) - 1)>>) \o KeepLines(Tail(lines))

LoadWhiteList(file) ==
    IF file.exists
    THEN LET all == KeepLines(GetLines(file.bytes, 1))
         IN  [mode |-> TRUE, list |-> SubSeq(all, 1, Min(Len(all), max_list_len))]
    ELSE [mode |-> FALSE, list |-> << >>]

(***************************************************************************)
(* shouldSkipDirectory, lines 173-220: the whitelist.                      *)
(* pathLower holds the l lowercased bytes of the path and NO terminator:   *)
(* byte l of the malloc'ed block is never written.  A strncmp that agrees  *)
(* on every initialised byte and needs more reads uninitialised memory     *)
(* (and then memory past the block); its answer is then either one.        *)
(***************************************************************************)
ToLower(c) == IF c >= 65 /\ c <= 90 THEN c - 65 + 97 ELSE c

PathLower(path) == [i \in 1..Len(path) |-> ToLower(path[i])]

\* the possible values of (strncmp(a + off, s, Len(s)) == 0) where a has
\* Len(a) initialised bytes and nothing defined after them
StrncmpLower(a, off, s) ==
    LET have == IF off >= Len(a) THEN << >> ELSE SubSeq(a, off + 1, Len(a))
    IN  IF Len(have) >= Len(s)
        THEN {SubSeq(have, 1, Len(s)) = s}
        ELSE IF have = SubSeq(s, 1, Len(have)) THEN BOOLEAN ELSE {FALSE}

\* lines 191-204: the values shouldSkip can end with once prefix k matched
WhiteListDecision(lower, k, wl) ==
    IF Len(lower) = Len(prefixes[k])
    THEN {FALSE}
    ELSE LET can(i)  == TRUE \in StrncmpLower(lower, Len(prefixes[k]), wl[i])
             must(i) == StrncmpLower(lower, Len(prefixes[k]), wl[i]) = {TRUE}
         IN  (IF \E i \in 1..Len(wl) : can(i) THEN {FALSE} ELSE {})
             \cup (IF \E i \in 1..Len(wl) : must(i) THEN {} ELSE {TRUE})

\* lines 184-214: "NA" when no prefix is found applicable
RECURSIVE WhiteListLoop(_, _, _)
WhiteListLoop(lower, k, wl) ==
    IF k > nPrefixes THEN {"NA"}
    ELSE LET m == StrncmpLower(lower, 0, prefixes[k])
         IN  (IF TRUE \in m
              THEN {IF d THEN "SKIP" ELSE "KEEP" : d \in WhiteListDecision(lower, k, wl)}
              ELSE {})
             \cup (IF FALSE \in m THEN WhiteListLoop(lower, k + 1, wl) ELSE {})

WhiteListOutcomes(path, mode, wl) ==
    IF mode THEN WhiteListLoop(PathLower(path), 1, wl) ELSE {"NA"}

\* mutant: a whitelisted path still falls through to the skip list
ShouldSkipOutcomes_FallThrough(path, mode, wl, list, index) ==
    LET w == WhiteListOutcomes(path, mode, wl)
    IN  (IF "SKIP" \in w THEN {TRUE} ELSE {})
        \cup (IF w \cap {"NA", "KEEP"} # {}
              THEN {SkipListMatches(path, list, index)} ELSE {})

\* every value shouldSkipDirectory(path) can return
ShouldSkipOutcomes(path, mode, wl, list, index) ==
    LET w == WhiteListOutcomes(path, mode, wl)
    IN  {d = "SKIP" : d \in w \ {"NA"}}
        \cup (IF "NA" \in w THEN {SkipListMatches(path, list, index)} ELSE {})

(***************************************************************************)
(* State.                                                                  *)
(***************************************************************************)
VARIABLES
    \* environment: the directory graph, the whitelist file, the property
    fs,             \* node -> [kind, entries, canOpen, statOk]
    wlFile,         \* "/sdcard/.mediascanner_whitelist": [exists, bytes]
    skipProp,       \* value of testing.mediascanner.skiplist
    garbage,        \* the byte malloc'ed memory happens to hold
    root,           \* the path given to processDirectory
    \* MediaScanner members (set by the constructor)
    mSkipList, mSkipIndex,
    \* the function-local statics of shouldSkipDirectory
    isLoaded, isWhiteListMode, whiteList,
    loads,          \* how many times loadWhiteList has run
    \* processDirectory / doProcessDirectory / doProcessDirectoryEntry
    pc,             \* "idle" | "run" | "done" (| "call" in SkipSpec)
    buf,            \* pathBuffer[0..PATH_MAX]
    hiWrite,        \* the highest offset from pathBuffer a store has gone to
    stack,          \* the activations of doProcessDirectory, innermost last
    handles,        \* directory streams opened and not yet closed
    result,         \* what processDirectory returned
    mallocFailed,   \* malloc(PATH_MAX + 1) returned NULL
    \* the Reporter's record of scanFile calls, and a log of returns
    reports, rets,
    \* SkipSpec: the last direct call of shouldSkipDirectory
    call

vars == <<fs, wlFile, skipProp, garbage, root, mSkipList, mSkipIndex,
          isLoaded, isWhiteListMode, whiteList, loads, pc, buf, hiWrite,
          stack, handles, result, mallocFailed, reports, rets, call>>

envVars == <<fs, wlFile, skipProp, garbage, root, mSkipList, mSkipIndex>>
wlVars == <<isLoaded, isWhiteListMode, whiteList, loads>>

NoNode == -1

(***************************************************************************)
(* The scanned inputs.  A scan starts from the plain tree                  *)
(*     <root>/  music/ (s, in/ (t))   b/ (u, .x)   f   .h/ (g)             *)
(* with a short root, no filter and no marker, and departs from it by at   *)
(* most MaxFeatures of the features below.  "inCycle" adds to music/in an  *)
(* entry l of unknown type that stat resolves to the directory music, an   *)
(* ancestor: the graph then has a cycle.                                   *)
(***************************************************************************)
Features ==
    { "rootEmpty", "rootNoScan", "rootNoMedia", "rootNoOpen",
      "musicNoScan", "musicNoMedia", "musicNoOpen", "musicUnknown",
      "musicStatFail", "bNoScan", "fUnknown", "fStatFail", "fOther",
      "rootSlash", "rootSd", "rootLong9", "rootLong6", "rootMax",
      "rootTooLong", "rootNone",
      "skipB", "wlMusic", "wlBu", "garbage", "inCycle" }

FeatureSets == {F \in SUBSET Features : Cardinality(F) <= MaxFeatures}

\* names of the tree
N_dot == <<DOT>>
N_dotdot == <<DOT, DOT>>
N_music == <<109, 117, 115, 105, 99>>
N_in == <<105, 110>>
N_b == <<98>>
N_f == <<102>>
N_h == <<DOT, 104>>
N_s == <<115>>
N_t == <<116>>
N_u == <<117>>
N_g == <<103>>
N_x == <<DOT, 120>>
N_l == <<108>>

\* a root path that leaves exactly k bytes of pathRemaining: "/rrr...r"
RootLeaving(k) == <<SLASH>> \o [i \in 1..(PATH_MAX - k - 2) |-> 114]

RootOf(F) ==
    IF "rootNone" \in F THEN << >>
    ELSE IF "rootTooLong" \in F THEN <<SLASH>> \o [i \in 1..(PATH_MAX - 1) |-> 114]
    ELSE IF "rootMax" \in F THEN RootLeaving(0)
    ELSE IF "rootLong6" \in F THEN RootLeaving(6)
    ELSE IF "rootLong9" \in F THEN RootLeaving(9)
    ELSE IF "rootSd" \in F THEN SubSeq(prefixes[2], 1, Len(prefixes[2]) - 1)
    ELSE IF "rootSlash" \in F THEN <<SLASH, 114, SLASH>>
    ELSE <<SLASH, 114>>

\* the root as processDirectory hands it on (lines 96-101): a separator is
\* added unless the path is empty or ends with one
RootNorm(r) == IF r = << >> \/ r[Len(r)] = SLASH THEN r ELSE r \o <<SLASH>>

Ent(name, type, node) == [name |-> name, type |-> type, node |-> node]

Dots(self, parent) == <<Ent(N_dot, "DT_DIR", self), Ent(N_dotdot, "DT_DIR", parent)>>

Markers(noscan, nomedia) ==
    (IF noscan THEN <<Ent(NoScanName, "DT_REG", 10)>> ELSE << >>)
    \o (IF nomedia THEN <<Ent(NoMediaName, "DT_REG", 10)>> ELSE << >>)

Dir(entries, canOpen, statOk) ==
    [kind |-> "dir", entries |-> entries, canOpen |-> canOpen, statOk |-> statOk]

Reg(statOk) ==
    [kind |-> "reg", entries |-> << >>, canOpen |-> FALSE, statOk |-> statOk]

FsOf(F) ==
    LET rootEntries ==
            Dots(0, 0) \o Markers("rootNoScan" \in F, "rootNoMedia" \in F)
            \o (IF "rootEmpty" \in F THEN << >>
                ELSE << Ent(N_music,
                            IF "musicUnknown" \in F THEN "DT_UNKNOWN" ELSE "DT_DIR", 1),
                        Ent(N_b, "DT_DIR", 2),
                        Ent(N_f,
                            IF "fOther" \in F THEN "DT_LNK"
                            ELSE IF "fUnknown" \in F THEN "DT_UNKNOWN" ELSE "DT_REG", 3),
                        Ent(N_h, "DT_DIR", 4) >>)
    IN  [n \in 0..11 |->
            CASE n = 0 -> Dir(rootEntries, "rootNoOpen" \notin F, TRUE)
              [] n = 1 -> Dir(Dots(1, 0)
                              \o Markers("musicNoScan" \in F, "musicNoMedia" \in F)
                              \o <<Ent(N_s, "DT_REG", 5), Ent(N_in, "DT_DIR", 6)>>,
                              "musicNoOpen" \notin F, "musicStatFail" \notin F)
              [] n = 2 -> Dir(Dots(2, 0) \o Markers("bNoScan" \in F, FALSE)
                              \o <<Ent(N_u, "DT_REG", 8), Ent(N_x, "DT_REG", 11)>>,
                              TRUE, TRUE)
              [] n = 3 -> Reg("fStatFail" \notin F)
              [] n = 4 -> Dir(Dots(4, 0) \o <<Ent(N_g, "DT_REG", 9)>>, TRUE, TRUE)
              [] n = 6 -> Dir(Dots(6, 1) \o <<Ent(N_t, "DT_REG", 7)>>
                              \o (IF "inCycle" \in F
                                  THEN <<Ent(N_l, "DT_UNKNOWN", 1)>> ELSE << >>),
                              TRUE, TRUE)
              [] OTHER -> Reg(TRUE)]

\* the whitelist file: absent, "music\n", or "b/u\n"
WlFileOf(F) ==
    IF "wlMusic" \in F THEN [exists |-> TRUE, bytes |-> N_music \o <<NEWLINE>>]
    ELSE IF "wlBu" \in F THEN [exists |-> TRUE, bytes |-> <<98, SLASH, 117, NEWLINE>>]
    ELSE [exists |-> FALSE, bytes |-> << >>]

\* the skip-list property: empty, or the one directory "<root>/b/"
SkipPropOf(F) ==
    IF "skipB" \in F THEN RootNorm(RootOf(F)) \o <<98, SLASH>> ELSE << >>

(***************************************************************************)
(* The file system calls, resolved by path as the kernel does.             *)
(***************************************************************************)
EntryNamed(node, name) ==
    {i \in 1..Len(fs[node].entries) : fs[node].entries[i].name = name}

\* the node reached from a directory node through the components of s; the
\* walk is a function of the node and the position reached in s
Walk(node, s) ==
    LET from[n \in DOMAIN fs, i \in 1..(Len(s) + 1)] ==
            IF i > Len(s) THEN n
            ELSE IF fs[n].kind # "dir" THEN NoNode
            ELSE LET e == FindChar(s, SLASH, i)
                     comp == SubSeq(s, i, e - 1)
                     found == EntryNamed(n, comp)
                 IN  IF comp = << >> THEN from[n, Min(e + 1, Len(s) + 1)]
                     ELSE IF found = {} THEN NoNode
                     ELSE LET to == fs[n].entries[CHOOSE k \in found : TRUE].node
                          IN  IF e <= Len(s) /\ fs[to].kind # "dir" THEN NoNode
                              ELSE from[to, Min(e + 1, Len(s) + 1)]
    IN  from[node, 1]

\* the node a path names, the tree being mounted at the scan root; the empty
\* root names no directory, and the working directory holds none of the names
\* (the path below the root is evaluated once, then walked)
Lookup(path) ==
    IF root = << >> \/ ~StartsWith(path, RootNorm(root)) THEN NoNode
    ELSE CHOOSE n \in {Walk(0, s) :
                          s \in {SubSeq(path, Len(RootNorm(root)) + 1, Len(path))}} :
             TRUE

\* access(path, F_OK) == 0
AccessOk(path) == Lookup(path) # NoNode

\* opendir(path): the node the stream reads, or NoNode
Opendir(path) ==
    LET n == Lookup(path)
    IN  IF n # NoNode /\ fs[n].kind = "dir" /\ fs[n].canOpen THEN n ELSE NoNode

\* stat(path, &statbuf): the kind found, or "fail"
Stat(path) ==
    LET n == Lookup(path)
    IN  IF n # NoNode /\ fs[n].statOk THEN fs[n].kind ELSE "fail"

(***************************************************************************)
(* The path buffer.                                                        *)
(***************************************************************************)
RECURSIVE StrlenFrom(_, _)
StrlenFrom(b, i) ==
    IF i > PATH_MAX \/ b[i] = NUL THEN i ELSE StrlenFrom(b, i + 1)

\* strlen(b + from)
Strlen(b, from) == StrlenFrom(b, from) - from

\* the C string held at b
CStr(b) == [i \in 1..Strlen(b, 0) |-> b[i - 1]]

\* strcpy(b + at, s)
Strcpy(b, at, s) ==
    [i \in DOMAIN b |->
        IF i >= at /\ i < at + Len(s) THEN s[i - at + 1]
        ELSE IF i = at + Len(s) THEN NUL
        ELSE b[i]]

\* strcat(b + at, s)
Strcat(b, at, s) == Strcpy(b, at + Strlen(b, at), s)

Max(a, b) == IF a >= b THEN a ELSE b

\* a store of a string of n bytes and its terminator at offset at
Stored(at, n) == hiWrite' = Max(hiWrite, at + n)

\* mutant: the "restore path" store is missing
Truncate_Omitted(b, at) == b

\* b[at] = 0
Truncate(b, at) == [b EXCEPT ![at] = NUL]

\* mutant: isLoaded is not consulted; every call loads the whitelist
shouldSkipDirectory_Reloads(path, ret) ==
    LET wl == LoadWhiteList(wlFile)
    IN  /\ isLoaded' = TRUE
        /\ isWhiteListMode' = wl.mode
        /\ whiteList' = wl.list
        /\ loads' = loads + 1
        /\ ret \in ShouldSkipOutcomes(path, wl.mode, wl.list, mSkipList, mSkipIndex)

(***************************************************************************)
(* shouldSkipDirectory(path) returning ret: the first call loads the       *)
(* whitelist into the statics (lines 165-168), every call then decides.    *)
(***************************************************************************)
shouldSkipDirectory(path, ret) ==
    LET wl == IF isLoaded
              THEN [mode |-> isWhiteListMode, list |-> whiteList]
              ELSE LoadWhiteList(wlFile)
    IN  /\ isLoaded' = TRUE
        /\ isWhiteListMode' = wl.mode
        /\ whiteList' = wl.list
        /\ loads' = IF isLoaded THEN loads ELSE loads + 1
        /\ ret \in ShouldSkipOutcomes(path, wl.mode, wl.list, mSkipList, mSkipIndex)

(***************************************************************************)
(* The walker.  One activation of doProcessDirectory is a frame:           *)
(*   fileSpot, pathRemaining, noMedia : its locals and parameters          *)
(*   pc    : "enter" | "noscan" | "nomedia" | "opendir" | "loop" | "wait"  *)
(*           | "ret"                                                       *)
(*   dir, pos, open : the DIR stream (node read, next entry, not closed)   *)
(*   result : the value returned (pc = "ret")                              *)
(*   cur, before : bookkeeping for the properties: the name of the entry   *)
(*           being processed, and the buffer's string when called          *)
(***************************************************************************)
Top == stack[Len(stack)]

NewFrame(b, rem, noMedia) ==
    [fileSpot |-> Strlen(b, 0), pathRemaining |-> rem, noMedia |-> noMedia,
     pc |-> "enter", dir |-> NoNode, pos |-> 1, open |-> FALSE,
     result |-> MEDIA_SCAN_RESULT_OK, cur |-> << >>, before |-> CStr(b)]

\* the entry names from the scan root down to the directory of frame i
NamesOf(st, i) == [j \in 1..(i - 1) |-> st[j].cur]

SetTop(f) == stack' = [stack EXCEPT ![Len(stack)] = f]

\* the log entry of a return of frame f (at depth i) by exit kind
RetRecord(f, i, kind, res, b) ==
    [names |-> NamesOf(stack, i), kind |-> kind, result |-> res,
     rem |-> f.pathRemaining, opened |-> f.dir # NoNode,
     before |-> f.before, after |-> CStr(b)]

\* mutant: the Reporter's status is ignored
StatusAborts_Ignored(status) == FALSE

\* line 340, 356: a status that makes the entry return MEDIA_SCAN_RESULT_ERROR
StatusAborts(status) == status # 0

\* mutant: any result other than OK is passed up
ResultAborts_AnyNonOk(res) == res # MEDIA_SCAN_RESULT_OK

\* line 349, 286-287: a result that is passed up and ends the enumeration
ResultAborts(res) == res = MEDIA_SCAN_RESULT_ERROR

\* mutant: the capacity test is inverted
ProbeFits_Inverted(pathRemaining, markerLen) == pathRemaining < markerLen

\* line 255, 267: the marker name is probed only if it fits
ProbeFits(pathRemaining, markerLen) == pathRemaining >= markerLen

\* mutant: only "." is recognised
IsDotOrDotDot_OnlyDot(name) == name[1] = DOT /\ Len(name) = 1

\* line 303: "." and ".."
IsDotOrDotDot(name) ==
    name[1] = DOT /\ (Len(name) = 1 \/ (name[2] = DOT /\ Len(name) = 2))

\* line 308: the name and a separator must fit
NameTooLong(nameLength, pathRemaining) == nameLength + 1 > pathRemaining

\* mutant: the name is appended to the buffer's string (strcat) instead of
\* being copied at fileSpot
NameSpot_Append(b, fileSpot) == fileSpot + Strlen(b, fileSpot)

\* line 312: where the entry's name is copied
NameSpot(b, fileSpot) == fileSpot

\* mutant: a hidden name does not set the flag
ChildNoMedia_InheritedOnly(noMedia, name) == noMedia

\* mutant: the inherited flag is dropped
ChildNoMedia_NotInherited(noMedia, name) == name[1] = DOT

\* lines 330-334
ChildNoMedia(noMedia, name) == IF name[1] = DOT THEN TRUE ELSE noMedia

\* mutant: the callee is given the caller's capacity
ChildRemaining_NotReduced(pathRemaining, nameLength) == pathRemaining

\* mutant: the separator is not counted
ChildRemaining_NoSeparator(pathRemaining, nameLength) == pathRemaining - nameLength

\* line 347
ChildRemaining(pathRemaining, nameLength) == pathRemaining - nameLength - 1

\* lines 314-328: d_type, or what stat() finds for DT_UNKNOWN
EntryType(dtype, st) ==
    IF dtype = "DT_UNKNOWN"
    THEN IF st = "reg" THEN "DT_REG" ELSE IF st = "dir" THEN "DT_DIR" ELSE dtype
    ELSE dtype

\* what the Reporter may answer
Statuses == {0, -1}

ScanFile(path, names, isDirectory, noMedia, status) ==
    reports' = Append(reports,
                      [path |-> path, names |-> names, isDirectory |-> isDirectory,
                       noMedia |-> noMedia, status |-> status])

\* processDirectory, lines 86-89
ProcessDirectoryTooLong ==
    /\ pc = "idle"
    /\ Len(root) >= PATH_MAX
    /\ pc' = "done"
    /\ result' = MEDIA_SCAN_RESULT_SKIPPED
    /\ UNCHANGED <<envVars, wlVars, buf, hiWrite, stack, handles, mallocFailed,
                   reports, rets, call>>

\* processDirectory, lines 90-93
ProcessDirectoryNoMem ==
    /\ pc = "idle"
    /\ Len(root) < PATH_MAX
    /\ mallocFailed' = TRUE
    /\ pc' = "done"
    /\ result' = MEDIA_SCAN_RESULT_ERROR
    /\ UNCHANGED <<envVars, wlVars, buf, hiWrite, stack, handles, reports, rets,
                   call>>

\* processDirectory, lines 95-105
ProcessDirectory ==
    /\ pc = "idle"
    /\ Len(root) < PATH_MAX
    /\ LET pathLength == Len(root)
           b1 == Strcpy(buf, 0, root)
           addSlash == pathLength > 0 /\ b1[pathLength - 1] # SLASH
           b2 == IF addSlash
                 THEN [b1 EXCEPT ![pathLength] = SLASH, ![pathLength + 1] = NUL]
                 ELSE b1
           pathRemaining == PATH_MAX - pathLength - (IF addSlash THEN 1 ELSE 0)
       IN  /\ buf' = b2
           /\ Stored(0, pathLength + (IF addSlash THEN 1 ELSE 0))
           /\ stack' = <<NewFrame(b2, pathRemaining, FALSE)>>
    /\ pc' = "run"
    /\ UNCHANGED <<envVars, wlVars, handles, result, mallocFailed, reports, rets, call>>

\* mutant: a filtered directory returns like an excluded one
FilterResult_Skipped == MEDIA_SCAN_RESULT_SKIPPED

\* line 251: what doProcessDirectory returns for a directory the filter rejects
FilterResult == MEDIA_SCAN_RESULT_OK

\* doProcessDirectory, lines 246-252
SkipCheck ==
    /\ pc = "run" /\ Top.pc = "enter"
    /\ \E skip \in BOOLEAN :
        /\ shouldSkipDirectory(CStr(buf), skip)
        /\ IF skip
           THEN /\ SetTop([Top EXCEPT !.pc = "ret", !.result = FilterResult])
                /\ rets' = Append(rets, RetRecord(Top, Len(stack), "filter",
                                                  FilterResult, buf))
           ELSE /\ SetTop([Top EXCEPT !.pc = "noscan"])
                /\ UNCHANGED rets
    /\ UNCHANGED <<envVars, pc, buf, hiWrite, handles, result, mallocFailed,
                   reports, call>>

\* doProcessDirectory, lines 254-264
ProbeNoScan ==
    /\ pc = "run" /\ Top.pc = "noscan"
    /\ LET probe == Strcpy(buf, Top.fileSpot, NoScanName)
       IN  IF ProbeFits(Top.pathRemaining, NOSCAN_LEN)
           THEN IF AccessOk(CStr(probe))
                THEN /\ buf' = probe
                     /\ Stored(Top.fileSpot, NOSCAN_LEN)
                     /\ SetTop([Top EXCEPT !.pc = "ret",
                                           !.result = MEDIA_SCAN_RESULT_SKIPPED])
                     /\ rets' = Append(rets, RetRecord(Top, Len(stack), "noscan",
                                                       MEDIA_SCAN_RESULT_SKIPPED, probe))
                ELSE /\ buf' = Truncate(probe, Top.fileSpot)
                     /\ Stored(Top.fileSpot, NOSCAN_LEN)
                     /\ SetTop([Top EXCEPT !.pc = "nomedia"])
                     /\ UNCHANGED rets
           ELSE /\ SetTop([Top EXCEPT !.pc = "nomedia"])
                /\ UNCHANGED <<buf, hiWrite, rets>>
    /\ UNCHANGED <<envVars, wlVars, pc, handles, result, mallocFailed, reports, call>>

\* mutant: noMedia is shared with the callers (a reference parameter): finding
\* the marker sets it in every activation
ProbeNoMedia_ByReference ==
    /\ pc = "run" /\ Top.pc = "nomedia"
    /\ LET probe == Strcpy(buf, Top.fileSpot, NoMediaName)
           found == ProbeFits(Top.pathRemaining, NOMEDIA_LEN) /\ AccessOk(CStr(probe))
       IN  /\ buf' = IF ProbeFits(Top.pathRemaining, NOMEDIA_LEN)
                     THEN Truncate(probe, Top.fileSpot) ELSE buf
           /\ hiWrite' = IF ProbeFits(Top.pathRemaining, NOMEDIA_LEN)
                         THEN Max(hiWrite, Top.fileSpot + NOMEDIA_LEN) ELSE hiWrite
           /\ stack' = [i \in 1..Len(stack) |->
                           [stack[i] EXCEPT
                               !.pc = IF i = Len(stack) THEN "opendir" ELSE @,
                               !.noMedia = IF found THEN TRUE ELSE @]]
    /\ UNCHANGED <<envVars, wlVars, pc, handles, result, mallocFailed, reports,
                   rets, call>>

\* doProcessDirectory, lines 266-276
ProbeNoMedia ==
    /\ pc = "run" /\ Top.pc = "nomedia"
    /\ LET probe == Strcpy(buf, Top.fileSpot, NoMediaName)
       IN  IF ProbeFits(Top.pathRemaining, NOMEDIA_LEN)
           THEN /\ buf' = Truncate(probe, Top.fileSpot)
                /\ Stored(Top.fileSpot, NOMEDIA_LEN)
                /\ SetTop([Top EXCEPT !.pc = "opendir",
                                      !.noMedia = IF AccessOk(CStr(probe))
                                                  THEN TRUE ELSE @])
           ELSE /\ SetTop([Top EXCEPT !.pc = "opendir"])
                /\ UNCHANGED <<buf, hiWrite>>
    /\ UNCHANGED <<envVars, wlVars, pc, handles, result, mallocFailed, reports,
                   rets, call>>

\* doProcessDirectory, lines 278-284
OpenDir ==
    /\ pc = "run" /\ Top.pc = "opendir"
    /\ LET dir == Opendir(CStr(buf))
       IN  IF dir = NoNode
           THEN /\ SetTop([Top EXCEPT !.pc = "ret",
                                      !.result = MEDIA_SCAN_RESULT_SKIPPED])
                /\ rets' = Append(rets, RetRecord(Top, Len(stack), "openfail",
                                                  MEDIA_SCAN_RESULT_SKIPPED, buf))
                /\ UNCHANGED handles
           ELSE /\ SetTop([Top EXCEPT !.pc = "loop", !.dir = dir, !.pos = 1,
                                      !.open = TRUE])
                /\ handles' = handles + 1
                /\ UNCHANGED rets
    /\ UNCHANGED <<envVars, wlVars, pc, buf, hiWrite, result, mallocFailed,
                   reports, call>>

\* mutant: the return on error leaves the stream open
AbortFrame_NoClose(f, i, b) ==
    /\ UNCHANGED handles
    /\ rets' = Append(rets, RetRecord(f, i, "error", MEDIA_SCAN_RESULT_ERROR, b))

\* lines 287-293 after doProcessDirectoryEntry returned ERROR in frame f:
\* leave the loop, closedir, return ERROR
AbortFrame(f, i, b) ==
    /\ handles' = handles - 1
    /\ rets' = Append(rets, RetRecord(f, i, "error", MEDIA_SCAN_RESULT_ERROR, b))

\* doProcessDirectory line 285-286 with doProcessDirectoryEntry, lines 296-362,
\* up to its return or its recursive call
ProcessEntry ==
    /\ pc = "run" /\ Top.pc = "loop"
    /\ Top.pos <= Len(fs[Top.dir].entries)
    /\ LET f == Top
           entry == fs[f.dir].entries[f.pos]
           name == entry.name
           nameLength == Len(name)
           b1 == Strcpy(buf, NameSpot(buf, f.fileSpot), name)
           st == Stat(CStr(b1))
           type == EntryType(entry.type, st)
           childNoMedia == ChildNoMedia(f.noMedia, name)
           names == Append(NamesOf(stack, Len(stack)), name)
           next == [f EXCEPT !.pos = @ + 1]
           failed == [next EXCEPT !.pc = "ret", !.open = FALSE,
                                  !.result = MEDIA_SCAN_RESULT_ERROR]
           b2 == Strcat(b1, f.fileSpot, <<SLASH>>)
           nameStored == Stored(NameSpot(buf, f.fileSpot), nameLength)
           recurse ==
               /\ buf' = b2
               /\ hiWrite' = Max(Max(hiWrite, NameSpot(buf, f.fileSpot) + nameLength),
                                 f.fileSpot + Strlen(b1, f.fileSpot) + 1)
               /\ stack' = [stack EXCEPT ![Len(stack)] =
                                [next EXCEPT !.pc = "wait", !.cur = name]]
                           \o <<NewFrame(b2, ChildRemaining(f.pathRemaining, nameLength),
                                         childNoMedia)>>
               /\ UNCHANGED <<handles, rets>>
       IN  IF IsDotOrDotDot(name) \/ NameTooLong(nameLength, f.pathRemaining)
           THEN /\ SetTop(next)
                /\ UNCHANGED <<buf, hiWrite, reports, handles, rets>>
           ELSE IF type = "DT_DIR"
           THEN IF st # "fail"
                THEN \E status \in Statuses :
                        /\ ScanFile(CStr(b1), names, TRUE, childNoMedia, status)
                        /\ IF StatusAborts(status)
                           THEN /\ buf' = b1
                                /\ nameStored
                                /\ SetTop(failed)
                                /\ AbortFrame(f, Len(stack), b1)
                           ELSE recurse
                ELSE recurse /\ UNCHANGED reports
           ELSE IF type = "DT_REG"
           THEN \E status \in Statuses :
                    /\ ScanFile(CStr(b1), names, FALSE, f.noMedia, status)
                    /\ buf' = b1
                    /\ nameStored
                    /\ IF StatusAborts(status)
                       THEN SetTop(failed) /\ AbortFrame(f, Len(stack), b1)
                       ELSE SetTop(next) /\ UNCHANGED <<handles, rets>>
           ELSE /\ buf' = b1
                /\ nameStored
                /\ SetTop(next)
                /\ UNCHANGED <<reports, handles, rets>>
    /\ UNCHANGED <<envVars, wlVars, pc, result, mallocFailed, call>>

\* doProcessDirectory, lines 285, 292-293: readdir returns NULL
EndOfDir ==
    /\ pc = "run" /\ Top.pc = "loop"
    /\ Top.pos > Len(fs[Top.dir].entries)
    /\ SetTop([Top EXCEPT !.pc = "ret", !.open = FALSE])
    /\ handles' = handles - 1
    /\ rets' = Append(rets, RetRecord(Top, Len(stack), "end", Top.result, buf))
    /\ UNCHANGED <<envVars, wlVars, pc, buf, hiWrite, result, mallocFailed,
                   reports, call>>

\* a recursive call returns into doProcessDirectoryEntry, lines 347-351 and
\* 361, and from there into the caller's loop, lines 286-293
Return ==
    /\ pc = "run" /\ Len(stack) > 1 /\ Top.pc = "ret"
    /\ LET i == Len(stack) - 1
           caller == stack[i]
           rest == SubSeq(stack, 1, i)
       IN  IF ResultAborts(Top.result)
           THEN /\ stack' = [rest EXCEPT ![i] =
                                [caller EXCEPT !.pc = "ret", !.open = FALSE,
                                               !.result = MEDIA_SCAN_RESULT_ERROR]]
                /\ AbortFrame(caller, i, buf)
           ELSE /\ stack' = [rest EXCEPT ![i] = [caller EXCEPT !.pc = "loop",
                                                               !.cur = << >>]]
                /\ UNCHANGED <<handles, rets>>
    /\ UNCHANGED <<envVars, wlVars, pc, buf, hiWrite, result, mallocFailed,
                   reports, call>>

\* processDirectory, lines 105-109
Finish ==
    /\ pc = "run" /\ Len(stack) = 1 /\ Top.pc = "ret"
    /\ result' = Top.result
    /\ stack' = << >>
    /\ pc' = "done"
    /\ UNCHANGED <<envVars, wlVars, buf, hiWrite, handles, mallocFailed, reports,
                   rets, call>>

NoCall == [path |-> << >>, ret |-> FALSE, made |-> FALSE, n |-> 0]

\* the state after construction (MediaScanner(): loadSkipList), before a scan
InitWith(F) ==
    /\ fs = FsOf(F)
    /\ wlFile = WlFileOf(F)
    /\ skipProp = SkipPropOf(F)
    /\ garbage = (IF "garbage" \in F THEN 120 ELSE 0)
    /\ root = RootOf(F)
    /\ mSkipList = LoadSkipList(SkipPropOf(F))
    /\ mSkipIndex = LoadSkipIndex(SkipPropOf(F))
    /\ isLoaded = FALSE
    /\ isWhiteListMode = FALSE
    /\ whiteList = << >>
    /\ loads = 0
    /\ pc = "idle"
    /\ buf = [i \in 0..PATH_MAX |-> IF "garbage" \in F THEN 120 ELSE 0]
    /\ hiWrite = -1
    /\ stack = << >>
    /\ handles = 0
    /\ result = "none"
    /\ mallocFailed = FALSE
    /\ reports = << >>
    /\ rets = << >>
    /\ call = NoCall

Init == \E F \in FeatureSets : InitWith(F)

Next ==
    \/ ProcessDirectoryTooLong
    \/ ProcessDirectoryNoMem
    \/ ProcessDirectory
    \/ SkipCheck
    \/ ProbeNoScan
    \/ ProbeNoMedia
    \/ OpenDir
    \/ ProcessEntry
    \/ EndOfDir
    \/ Return
    \/ Finish

Spec == Init /\ [][Next]_vars

(***************************************************************************)
(* Vocabulary of the properties: what a visit should look like, derived    *)
(* from the scan root and the entry names alone (never from the buffer).   *)
(***************************************************************************)
RECURSIVE JoinNames(_)
JoinNames(names) ==
    IF Len(names) = 0 THEN << >>
    ELSE IF Len(names) = 1 THEN names[1]
    ELSE names[1] \o <<SLASH>> \o JoinNames(Tail(names))

\* the path of the item reached from the scan root through these entry names
ItemPath(names) == RootNorm(root) \o JoinNames(names)

\* the path of a directory as doProcessDirectory receives it
DirPath(names) ==
    IF Len(names) = 0 THEN RootNorm(root) ELSE ItemPath(names) \o <<SLASH>>

\* the bytes left behind a directory's path
RemOf(names) == PATH_MAX - Len(DirPath(names))

DirHas(names, marker) ==
    LET n == Lookup(DirPath(names))
    IN  n # NoNode /\ EntryNamed(n, marker) # {}

Prefix(names, k) == SubSeq(names, 1, k)

\* scanFile was called for an item strictly inside directory d
ReportedBelow(d) ==
    \E i \in 1..Len(reports) :
        Len(reports[i].names) > Len(d) /\ Prefix(reports[i].names, Len(d)) = d

Reported(names) == \E i \in 1..Len(reports) : reports[i].names = names

(***************************************************************************)
(* C1: every path handed to scanFile is the scan root with its trailing    *)
(* separator followed by the '/'-joined entry names of the item being      *)
(* visited; no residue of a sibling, a subtree or a marker probe.          *)
(***************************************************************************)
C1_ScanPathIsItemPath ==
    \A i \in 1..Len(reports) : reports[i].path = ItemPath(reports[i].names)

\* the second sibling "b" is reported after the subtree of "music" (with its
\* deeper and longer names and its marker probes) was visited
C1_Witness ==
    \E i, j \in 1..Len(reports) :
        /\ i < j
        /\ reports[i].names = <<N_music, N_in, N_t>>
        /\ reports[j].names = <<N_b>>
        /\ reports[j].path = RootNorm(root) \o N_b

NothingCopied(d, rem) ==
    \A k \in 1..Len(fs[d].entries) :
        \/ fs[d].entries[k].name \in {N_dot, N_dotdot}
        \/ Len(fs[d].entries[k].name) + 1 > rem

C3_ErrorStopsScan ==
    /\ \A i \in 1..(Len(reports) - 1) : reports[i].status = 0
    /\ (pc = "done" /\ Len(reports) > 0 /\ reports[Len(reports)].status # 0)
           => result = MEDIA_SCAN_RESULT_ERROR

\* the Reporter failed two levels down and the scan ended
C3_Witness ==
    /\ pc = "done"
    /\ Len(reports) > 0
    /\ reports[Len(reports)].names = <<N_music, N_in, N_t>>
    /\ reports[Len(reports)].status # 0
    /\ result = MEDIA_SCAN_RESULT_ERROR

(***************************************************************************)
(* C4 as stated: a directory that directly contains ".noscanandnomtp",     *)
(* with room for the probe, makes doProcessDirectory return SKIPPED        *)
(* without opening it, and nothing below it is passed to scanFile.         *)
(***************************************************************************)
C4_NoScanReturnsSkipped ==
    \A i \in 1..Len(rets) :
        (DirHas(rets[i].names, NoScanName) /\ rets[i].rem >= NOSCAN_LEN)
            => /\ rets[i].result = MEDIA_SCAN_RESULT_SKIPPED
               /\ ~rets[i].opened
               /\ ~ReportedBelow(rets[i].names)

(***************************************************************************)
(* C4 amended: such a directory, when shouldSkipDirectory does not reject  *)
(* it, makes doProcessDirectory return SKIPPED (a rejected one returns OK  *)
(* before the marker is probed); either way it is never opened and nothing *)
(* below it is passed to scanFile.                                         *)
(***************************************************************************)
C4_NoScanNeverEnumerated ==
    /\ \A i \in 1..Len(rets) :
        (DirHas(rets[i].names, NoScanName) /\ rets[i].rem >= NOSCAN_LEN)
            => /\ ~rets[i].opened
               /\ rets[i].kind \in {"filter", "noscan"}
               /\ rets[i].kind = "noscan"
                      => rets[i].result = MEDIA_SCAN_RESULT_SKIPPED
               /\ rets[i].kind = "filter" => rets[i].result = MEDIA_SCAN_RESULT_OK
    /\ \A i \in 1..Len(stack) :
        (DirHas(NamesOf(stack, i), NoScanName)
         /\ stack[i].pathRemaining >= NOSCAN_LEN)
            => stack[i].pc \in {"enter", "noscan", "ret"} /\ ~stack[i].open
    /\ \A i \in 1..Len(reports) :
        \A k \in 0..(Len(reports[i].names) - 1) :
            ~(DirHas(Prefix(reports[i].names, k), NoScanName)
              /\ RemOf(Prefix(reports[i].names, k)) >= NOSCAN_LEN)

\* "music" holds the marker and items below it: it returned SKIPPED, and the
\* scan went on to its sibling
C4_Witness ==
    /\ \E i \in 1..Len(rets) :
        /\ rets[i].names = <<N_music>>
        /\ rets[i].kind = "noscan"
        /\ DirHas(<<N_music>>, NoScanName)
        /\ DirHas(<<N_music>>, N_s)
    /\ Reported(<<N_b, N_u>>)

(***************************************************************************)
(* C5 as stated: if an enumerated directory directly contains ".nomedia",  *)
(* everything reported from inside its subtree has noMedia = TRUE.         *)
(***************************************************************************)
C5_NoMediaCoversSubtree ==
    \A i \in 1..Len(reports) :
        \A k \in 0..(Len(reports[i].names) - 1) :
            DirHas(Prefix(reports[i].names, k), NoMediaName) => reports[i].noMedia

(***************************************************************************)
(* C5 amended: if an enumerated directory directly contains ".nomedia" and *)
(* its pathRemaining is at least 8 (so that the marker is probed),         *)
(* everything reported from inside its subtree has noMedia = TRUE; and     *)
(* down one branch the flag, once TRUE, is never FALSE again.              *)
(***************************************************************************)
C5_ProbedNoMediaCoversSubtree ==
    /\ \A i \in 1..Len(reports) :
        \A k \in 0..(Len(reports[i].names) - 1) :
            (DirHas(Prefix(reports[i].names, k), NoMediaName)
             /\ RemOf(Prefix(reports[i].names, k)) >= NOMEDIA_LEN)
                => reports[i].noMedia
    /\ \A i, j \in 1..Len(stack) :
        (i < j /\ stack[i].noMedia) => stack[j].noMedia

\* "music" holds ".nomedia"; a file two levels below it is reported non-media
C5_Witness ==
    \E i \in 1..Len(reports) :
        /\ reports[i].names = <<N_music, N_in, N_t>>
        /\ reports[i].noMedia
        /\ DirHas(<<N_music>>, NoMediaName)
        /\ ~DirHas(<<N_music, N_in>>, NoMediaName)

(***************************************************************************)
(* C8 as stated: scanning an empty, unfiltered, unmarked root directory    *)
(* yields exactly one scanFile call and returns MEDIA_SCAN_RESULT_OK.      *)
(***************************************************************************)
EmptyRootScanned ==
    /\ pc = "done"
    /\ ~mallocFailed
    /\ Len(root) > 0 /\ Len(root) < PATH_MAX
    /\ fs[0].canOpen
    /\ \A i \in 1..Len(fs[0].entries) : fs[0].entries[i].name \in {N_dot, N_dotdot}
    /\ \A i \in 1..Len(rets) : rets[i].names = << >> => rets[i].kind # "filter"

C8_EmptyRootOneReport ==
    EmptyRootScanned => Len(reports) = 1 /\ result = MEDIA_SCAN_RESULT_OK

(***************************************************************************)
(* C8 amended: scanning an empty, unfiltered, unmarked root directory      *)
(* yields no scanFile call at all (the root itself is never reported) and  *)
(* returns MEDIA_SCAN_RESULT_OK.                                           *)
(***************************************************************************)
C8_EmptyRootNoReport ==
    EmptyRootScanned => Len(reports) = 0 /\ result = MEDIA_SCAN_RESULT_OK

C8_Witness ==
    /\ EmptyRootScanned
    /\ result = MEDIA_SCAN_RESULT_OK
    /\ \E i \in 1..Len(rets) : rets[i].names = << >> /\ rets[i].kind = "end"

(***************************************************************************)
(* C10: processDirectory returns ERROR only after a scanFile call returned *)
(* non-zero or the buffer could not be allocated; a directory whose        *)
(* enumeration was not cut by such an error returns OK having visited      *)
(* every entry: each regular file that fits is reported and each           *)
(* subdirectory that fits is entered and has returned, whatever it         *)
(* returned (cannot open, marker, filter) and whatever was skipped around  *)
(* it (name too long, failed stat).                                        *)
(***************************************************************************)
\* what an entry turns out to be (d_type, or the node behind DT_UNKNOWN)
ActualType(e) ==
    IF e.type # "DT_UNKNOWN" THEN e.type
    ELSE IF ~fs[e.node].statOk THEN "DT_UNKNOWN"
    ELSE IF fs[e.node].kind = "dir" THEN "DT_DIR"
    ELSE IF fs[e.node].kind = "reg" THEN "DT_REG" ELSE "DT_UNKNOWN"

Returned(names) == \E i \in 1..Len(rets) : rets[i].names = names

C10_OnlyReporterErrorIsFatal ==
    /\ (pc = "done" /\ result = MEDIA_SCAN_RESULT_ERROR)
           => \/ mallocFailed
              \/ Len(reports) > 0 /\ reports[Len(reports)].status # 0
    /\ \A i \in 1..Len(rets) :
        rets[i].kind = "end" =>
            /\ rets[i].result = MEDIA_SCAN_RESULT_OK
            /\ LET d == Lookup(DirPath(rets[i].names))
               IN  \A k \in 1..Len(fs[d].entries) :
                    LET e == fs[d].entries[k]
                        fits == e.name \notin {N_dot, N_dotdot}
                                /\ Len(e.name) + 1 <= rets[i].rem
                    IN  /\ (fits /\ ActualType(e) = "DT_REG")
                               => Reported(Append(rets[i].names, e.name))
                        /\ (fits /\ ActualType(e) = "DT_DIR")
                               => Returned(Append(rets[i].names, e.name))

\* "music" could not be opened (SKIPPED), yet its siblings were visited and
\* the scan returned OK
C10_Witness ==
    /\ pc = "done"
    /\ result = MEDIA_SCAN_RESULT_OK
    /\ \E i \in 1..Len(rets) :
        /\ rets[i].names = <<N_music>>
        /\ rets[i].kind = "openfail"
        /\ rets[i].result = MEDIA_SCAN_RESULT_SKIPPED
    /\ Reported(<<N_b, N_u>>)
    /\ Reported(<<N_f>>)

(***************************************************************************)
(* SkipSpec: shouldSkipDirectory called directly on a freshly constructed  *)
(* MediaScanner, for every skip-list property, whitelist file and path of  *)
(* the sets below.                                                         *)
(***************************************************************************)
\* 'a', '/', ','
Alphabet == {97, SLASH, COMMA}

Strings(n) == UNION {[1..k -> Alphabet] : k \in 0..n}

S_a_b == <<97, 47, 98>>                      \* "a/b"
S_a_bc == <<97, 47, 98, 99>>                 \* "a/bc"
S_xa_b == <<120, 97, 47, 98>>                \* "xa/b"
S_a_b_xa == <<97, 47, 98, 44, 120, 97>>      \* "a/b,xa"
\* "/storage/sdcard0/dcim/"
S_sd_dcim == prefixes[2] \o <<100, 99, 105, 109, 47>>
\* "/storage/emulated/0/dcim/100"
S_em_dcim_100 == prefixes[1] \o <<100, 99, 105, 109, 47, 49, 48, 48>>
\* "/storage/emulated/0/other"
S_em_other == prefixes[1] \o <<111, 116, 104, 101, 114>>
\* "/Storage/Emulated/0/DCIM/"
S_em_upper == <<47, 83, 116, 111, 114, 97, 103, 101, 47, 69, 109, 117, 108, 97,
                116, 101, 100, 47, 48, 47, 68, 67, 73, 77, 47>>
\* "/storage/"
S_storage == SubSeq(prefixes[1], 1, 9)
\* "/mnt/a/"
S_mnt == <<47, 109, 110, 116, 47, 97, 47>>

SkipProps ==
    Strings(MaxPropLen)
    \cup {S_a_b, S_a_b_xa, <<COMMA>> \o S_a_b, S_sd_dcim, S_sd_dcim \o <<COMMA>> \o S_a_b}

Paths ==
    Strings(MaxPropLen)
    \cup {S_a_b, S_a_bc, S_xa_b, S_sd_dcim, S_em_dcim_100, S_em_other, prefixes[1],
          prefixes[2], S_em_upper, S_storage, S_mnt}

\* absent; "dcim\nmusic\n"; "\ndcim/camera\nmusic" (a blank line, no final '\n')
WlFiles ==
    { [exists |-> FALSE, bytes |-> << >>],
      [exists |-> TRUE, bytes |-> <<100, 99, 105, 109, 10, 109, 117, 115, 105, 99, 10>>],
      [exists |-> TRUE,
       bytes |-> <<10, 100, 99, 105, 109, 47, 99, 97, 109, 101, 114, 97, 10,
                   109, 117, 115, 105, 99>>] }

SkipInit ==
    \E prop \in SkipProps, file \in WlFiles :
        /\ fs = FsOf({})
        /\ wlFile = file
        /\ skipProp = prop
        /\ garbage = 0
        /\ root = << >>
        /\ mSkipList = LoadSkipList(prop)
        /\ mSkipIndex = LoadSkipIndex(prop)
        /\ isLoaded = FALSE
        /\ isWhiteListMode = FALSE
        /\ whiteList = << >>
        /\ loads = 0
        /\ pc = "call"
        /\ buf = [i \in 0..PATH_MAX |-> 0]
        /\ hiWrite = -1
        /\ stack = << >>
        /\ handles = 0
        /\ result = "none"
        /\ mallocFailed = FALSE
        /\ reports = << >>
        /\ rets = << >>
        /\ call = NoCall

\* one call shouldSkipDirectory(path)
CallShouldSkip ==
    /\ pc = "call"
    /\ ~call.made
    /\ \E path \in Paths, ret \in BOOLEAN :
        /\ shouldSkipDirectory(path, ret)
        /\ call' = [path |-> path, ret |-> ret, made |-> TRUE, n |-> call.n + 1]
    /\ UNCHANGED <<envVars, pc, buf, hiWrite, stack, handles, result, mallocFailed,
                   reports, rets>>

SkipNext == CallShouldSkip

SkipSpec == SkipInit /\ [][SkipNext]_vars

\* the entries the administrator listed
SkipEntries == {StrtokTokens(skipProp, 1)[i] : i \in 1..Len(StrtokTokens(skipProp, 1))}

\* the lowercased path starts with root prefix k
UnderPrefix(path, k) == StartsWith(PathLower(path), prefixes[k])

\* the path and prefix k agree on every byte both have
AgreesWithPrefix(path, k) ==
    LET n == Min(Len(path), Len(prefixes[k]))
    IN  SubSeq(PathLower(path), 1, n) = SubSeq(prefixes[k], 1, n)

\* the whitelist has no say: the mode is off, or the path differs from both
\* root prefixes
WhitelistSilent(path) ==
    ~isWhiteListMode \/ \A k \in 1..nPrefixes : ~AgreesWithPrefix(path, k)

(***************************************************************************)
(* C6: with the whitelist not applicable, shouldSkipDirectory(path) is     *)
(* TRUE only if path is one whole entry of the comma-separated skip list,  *)
(* for every skip-list string, leading or repeated commas included.        *)
(***************************************************************************)
C6_SkipOnlyWholeEntry ==
    (call.made /\ WhitelistSilent(call.path) /\ call.ret)
        => call.path \in SkipEntries

(***************************************************************************)
(* C7: in whitelist mode, a path whose lowercased form starts with a root  *)
(* prefix is not skipped if it equals the prefix or if its remainder       *)
(* starts with a whitelist entry, and is skipped in every other case.      *)
(***************************************************************************)
C7_WhitelistDecides ==
    \A k \in 1..nPrefixes :
        (call.made /\ isWhiteListMode /\ UnderPrefix(call.path, k))
            => LET rest == SubSeq(PathLower(call.path), Len(prefixes[k]) + 1,
                                  Len(call.path))
                   keep == \/ Len(call.path) = Len(prefixes[k])
                           \/ \E i \in 1..Len(whiteList) : StartsWith(rest, whiteList[i])
               IN  call.ret = ~keep

(***************************************************************************)
(* C9: in whitelist mode the decision for a path under a root prefix is    *)
(* the whitelist's alone, the same whatever the skip list holds; the skip  *)
(* list decides only when the whitelist has no say.                        *)
(***************************************************************************)
C9_WhitelistBeforeSkipList ==
    call.made =>
        /\ (isWhiteListMode /\ \E k \in 1..nPrefixes : UnderPrefix(call.path, k))
            => /\ (IF call.ret THEN "SKIP" ELSE "KEEP")
                       \in WhiteListOutcomes(call.path, TRUE, whiteList)
               /\ \A prop \in SkipProps :
                    ShouldSkipOutcomes(call.path, TRUE, whiteList,
                                       LoadSkipList(prop), LoadSkipIndex(prop))
                    = ShouldSkipOutcomes(call.path, TRUE, whiteList,
                                         mSkipList, mSkipIndex)
        /\ WhitelistSilent(call.path)
            => call.ret = SkipListMatches(call.path, mSkipList, mSkipIndex)

\* a whitelisted path that is also a skip-list entry is not skipped
C9_Witness ==
    /\ call.made
    /\ isWhiteListMode
    /\ call.path = S_sd_dcim
    /\ call.path \in SkipEntries
    /\ ~call.ret

(***************************************************************************)
(* Hidden names.                                                           *)
(***************************************************************************)
Hidden(name) == name[1] = DOT

\* some directory on the way to the item, the item included if it is one, has
\* a hidden name
HiddenDirOnPath(names, isDirectory) ==
    \E k \in 1..Len(names) :
        Hidden(names[k]) /\ (k < Len(names) \/ isDirectory)

C12_OutsidePrefixesSkipListAlone ==
    (call.made /\ \A k \in 1..nPrefixes : ~UnderPrefix(call.path, k))
        => /\ ShouldSkipOutcomes(call.path, isWhiteListMode, whiteList,
                                 mSkipList, mSkipIndex)
              = ShouldSkipOutcomes(call.path, FALSE, << >>, mSkipList, mSkipIndex)
           /\ call.ret = SkipListMatches(call.path, mSkipList, mSkipIndex)

(***************************************************************************)
(* A process over time: shouldSkipDirectory is called again and again, by  *)
(* scans of one MediaScanner or of a newly constructed one, while the      *)
(* whitelist file appears, changes or goes away and the property is reset. *)
(* The statics of shouldSkipDirectory live as long as the process.         *)
(***************************************************************************)
SessionProps == {<< >>, S_a_b}

SessionPaths == {S_a_b, S_sd_dcim, S_em_other, S_mnt}

SessionInit ==
    \E prop \in SessionProps, file \in WlFiles :
        /\ fs = FsOf({})
        /\ wlFile = file
        /\ skipProp = prop
        /\ garbage = 0
        /\ root = << >>
        /\ mSkipList = LoadSkipList(prop)
        /\ mSkipIndex = LoadSkipIndex(prop)
        /\ isLoaded = FALSE
        /\ isWhiteListMode = FALSE
        /\ whiteList = << >>
        /\ loads = 0
        /\ pc = "session"
        /\ buf = [i \in 0..PATH_MAX |-> 0]
        /\ hiWrite = -1
        /\ stack = << >>
        /\ handles = 0
        /\ result = "none"
        /\ mallocFailed = FALSE
        /\ reports = << >>
        /\ rets = << >>
        /\ call = NoCall

\* the next call shouldSkipDirectory(path)
SessionCall ==
    /\ pc = "session"
    /\ call.n < MaxCalls
    /\ \E path \in SessionPaths, ret \in BOOLEAN :
        /\ shouldSkipDirectory(path, ret)
        /\ call' = [path |-> path, ret |-> ret, made |-> TRUE, n |-> call.n + 1]
    /\ UNCHANGED <<envVars, pc, buf, hiWrite, stack, handles, result, mallocFailed,
                   reports, rets>>

\* the file /sdcard/.mediascanner_whitelist is created, rewritten or removed
WhitelistFileChanges ==
    /\ pc = "session"
    /\ \E file \in WlFiles \ {wlFile} : wlFile' = file
    /\ UNCHANGED <<fs, skipProp, garbage, root, mSkipList, mSkipIndex, wlVars, pc,
                   buf, hiWrite, stack, handles, result, mallocFailed, reports, rets,
                   call>>

\* another MediaScanner is constructed: its constructor reads the property
NewSession ==
    /\ pc = "session"
    /\ \E prop \in SessionProps :
        /\ skipProp' = prop
        /\ mSkipList' = LoadSkipList(prop)
        /\ mSkipIndex' = LoadSkipIndex(prop)
    /\ UNCHANGED <<fs, wlFile, garbage, root, wlVars, pc, buf, hiWrite, stack,
                   handles, result, mallocFailed, reports, rets, call>>

SessionNext ==
    \/ SessionCall
    \/ WhitelistFileChanges
    \/ NewSession

SessionSpec == SessionInit /\ [][SessionNext]_vars

(***************************************************************************)
(* C13: over any sequence of shouldSkipDirectory calls in one process the  *)
(* whitelist file is loaded at most once, and once loaded the mode flag,   *)
(* the count and the entries never change, whatever happens to the file.   *)
(***************************************************************************)
C13_WhitelistLoadedOnce ==
    [][/\ loads' <= 1
       /\ isLoaded => /\ isLoaded'
                      /\ isWhiteListMode' = isWhiteListMode
                      /\ whiteList' = whiteList
                      /\ loads' = loads]_vars

\* a call made after the file has changed: a reload would give other statics
C13_Witness ==
    /\ call.n >= 2
    /\ loads = 1
    /\ isLoaded
    /\ LoadWhiteList(wlFile) # [mode |-> isWhiteListMode, list |-> whiteList]

(***************************************************************************)
(* C14: with the whitelist not applicable, every path equal to one of the  *)
(* comma-separated entries of the skip-list string is rejected, for every  *)
(* non-empty string, leading, trailing or consecutive commas included.     *)
(***************************************************************************)
C14_EveryEntryRejected ==
    (call.made /\ WhitelistSilent(call.path) /\ skipProp # << >>
        /\ call.path \in SkipEntries)
        => call.ret

(***************************************************************************)
(* C15: at every entry to doProcessDirectory the length of the path plus   *)
(* pathRemaining is PATH_MAX, and every store into the buffer (the root    *)
(* and its separator, the marker probes, an entry name, the appended '/'), *)
(* terminator included, stays within its PATH_MAX + 1 bytes: what would    *)
(* not fit is not written.                                                 *)
(***************************************************************************)
C15_BufferWithinCapacity ==
    /\ hiWrite <= PATH_MAX
    /\ pc = "run" => Strlen(buf, 0) <= PATH_MAX
    /\ \A i \in 1..Len(stack) :
        /\ stack[i].fileSpot = Len(stack[i].before)
        /\ stack[i].fileSpot + stack[i].pathRemaining = PATH_MAX
        /\ stack[i].pathRemaining >= 0

\* a directory entered with no byte left, whose entries were all passed over,
\* after a store that reached the last byte of the buffer
C15_Witness ==
    /\ hiWrite = PATH_MAX
    /\ pc = "run" /\ Len(stack) >= 2
    /\ Top.pathRemaining = 0
    /\ Top.pc = "loop" /\ Top.pos > Len(fs[Top.dir].entries)
    /\ reports[Len(reports)].names = NamesOf(stack, Len(stack))

(***************************************************************************)
(* C16: reporting is pre-order.  Every directory the walker is inside of   *)
(* (below the scan root) was reported to scanFile as a directory exactly   *)
(* once before the recursion into it started, and every item reported has  *)
(* each directory above it reported before it: the walker never descends   *)
(* into a directory it did not report.                                     *)
(***************************************************************************)
C16_ReportedBeforeDescent ==
    /\ \A i \in 2..Len(stack) :
          Cardinality({j \in 1..Len(reports) :
                          /\ reports[j].names = NamesOf(stack, i)
                          /\ reports[j].isDirectory}) = 1
    /\ \A j \in 1..Len(reports) :
          \A k \in 1..(Len(reports[j].names) - 1) :
              \E h \in 1..(j - 1) :
                  /\ reports[h].names = Prefix(reports[j].names, k)
                  /\ reports[h].isDirectory

(***************************************************************************)
(* C17: a directory that the whitelist or the skip list rejects makes      *)
(* doProcessDirectory return OK at once: no marker is probed, the          *)
(* directory is not opened, nothing inside it is reported and the buffer   *)
(* is as it was, also when the directory holds ".noscanandnomtp".          *)
(***************************************************************************)
C17_FilteredReturnsOkUntouched ==
    \A i \in 1..Len(rets) :
        LET r == rets[i]
            rejected == ShouldSkipOutcomes(r.before, isWhiteListMode, whiteList,
                                           mSkipList, mSkipIndex) = {TRUE}
        IN  (r.kind = "filter" \/ rejected)
                => /\ r.kind = "filter"
                   /\ r.result = MEDIA_SCAN_RESULT_OK
                   /\ ~r.opened
                   /\ r.after = r.before
                   /\ ~ReportedBelow(r.names)

\* b, on the skip list, holds the exclusion marker; the scan went on to f
C17_Witness ==
    /\ DirHas(<<N_b>>, NoScanName)
    /\ \E i \in 1..Len(rets) :
        /\ rets[i].names = <<N_b>> /\ rets[i].kind = "filter"
        /\ rets[i].result = MEDIA_SCAN_RESULT_OK
    /\ Reported(<<N_f>>)

(***************************************************************************)
(* C18: the noMedia flag is scoped.  An item is reported with noMedia =    *)
(* true only if a directory on its path, from the scan root down to its    *)
(* parent, holds ".nomedia", or a directory below the scan root on its     *)
(* path, the item itself included if it is a directory, has a hidden name. *)
(* The flag never reaches a later sibling or anything outside the subtree. *)
(***************************************************************************)
C18_NoMediaIsScoped ==
    \A i \in 1..Len(reports) :
        reports[i].noMedia
            => \/ \E k \in 0..(Len(reports[i].names) - 1) :
                    DirHas(Prefix(reports[i].names, k), NoMediaName)
               \/ HiddenDirOnPath(reports[i].names, reports[i].isDirectory)

\* music holds the marker: music/in/t is reported with the flag, and after
\* it the siblings b and f and the file b/u without it
C18_Witness ==
    \E i, j, k, h \in 1..Len(reports) :
        /\ reports[i].names = <<N_music, N_in, N_t>> /\ reports[i].noMedia
        /\ i < j /\ reports[j].names = <<N_b>> /\ ~reports[j].noMedia
        /\ i < k /\ reports[k].names = <<N_b, N_u>> /\ ~reports[k].noMedia
        /\ i < h /\ reports[h].names = <<N_f>> /\ ~reports[h].noMedia

(***************************************************************************)
(* C19: every directory stream opened by doProcessDirectory is closed      *)
(* before that call returns, on the normal path and after a Reporter       *)
(* error.  At any moment the number of open streams is the number of       *)
(* directories being enumerated on the recursion stack, and it is zero     *)
(* when processDirectory has returned.                                     *)
(***************************************************************************)
C19_HandlesFollowTheStack ==
    /\ handles = Cardinality({i \in 1..Len(stack) :
                                 stack[i].pc \in {"loop", "wait"}})
    /\ \A i \in 1..Len(stack) :
          stack[i].pc = "ret" => handles <= i - 1
    /\ pc = "done" => handles = 0

\* a Reporter error three directories deep: all three calls had opened their
\* directory, and the scan has returned
C19_Witness ==
    /\ pc = "done" /\ result = MEDIA_SCAN_RESULT_ERROR
    /\ handles = 0
    /\ \E i, j, k \in 1..Len(rets) :
        /\ rets[i].names = <<N_music, N_in>> /\ rets[i].kind = "error" /\ rets[i].opened
        /\ rets[j].names = <<N_music>> /\ rets[j].kind = "error" /\ rets[j].opened
        /\ rets[k].names = << >> /\ rets[k].kind = "error" /\ rets[k].opened

(***************************************************************************)
(* The scan under the scheduling of a sequential program: as long as a     *)
(* step is possible, one is taken.                                         *)
(***************************************************************************)
\* scans that depart from the plain tree by one feature, with and without
\* the cycle
FairInit ==
    \E f \in Features : \E F \in {{ }, {f}, {f, "inCycle"}} : InitWith(F)

FairSpec == FairInit /\ [][Next]_vars /\ WF_vars(Next)

\* the tree has a cycle: music/in/l is music again
Cyclic ==
    \E i \in 1..Len(fs[6].entries) :
        fs[6].entries[i].name = N_l /\ fs[6].entries[i].node = 1

(***************************************************************************)
(* C20: a scan terminates, also on a cyclic directory graph.  Each         *)
(* recursion leaves the callee at least 2 bytes less than its caller has,  *)
(* never less than none, so the depth is bounded by the capacity, and      *)
(* processDirectory eventually returns OK, SKIPPED or ERROR.               *)
(***************************************************************************)
C20_ScanTerminates ==
    /\ [](/\ \A i \in 1..(Len(stack) - 1) :
               stack[i + 1].pathRemaining <= stack[i].pathRemaining - 2
          /\ \A i \in 1..Len(stack) : stack[i].pathRemaining >= 0
          /\ 2 * Len(stack) <= PATH_MAX + 2)
    /\ <>(/\ pc = "done"
          /\ result \in {MEDIA_SCAN_RESULT_OK, MEDIA_SCAN_RESULT_SKIPPED,
                          MEDIA_SCAN_RESULT_ERROR})

\* a scan of the cyclic tree that went round the cycle until a name no
\* longer fitted, and returned OK
C20_Witness ==
    /\ Cyclic
    /\ pc = "done" /\ result = MEDIA_SCAN_RESULT_OK
    /\ \E i \in 1..Len(rets) :
        /\ Len(rets[i].names) >= 6
        /\ rets[i].kind = "end"
        /\ rets[i].rem < 3

====
